---- MODULE Spec2Model ----
(***************************************************************************)
(* Model of notebooks/DrizzlePac/align_multiple_visits/                    *)
(* align_multiple_visits.ipynb: the code cells of the notebook, run in the *)
(* order of the "cells" array by one kernel, acting on the working         *)
(* directory, the mastDownload tree and the kernel's namespace.            *)
(*                                                                         *)
(* A file name is a triple <<prefix, root, suffix>>, so that                *)
(* 'residuals_j9irw5kaq_flc.png' is <<"residuals_", "j9irw5kaq",            *)
(* "_flc.png">> and the pattern '*flc.fits' is a test of the suffix.        *)
(* A path under mastDownload is <<"mastDownload", "HST", obs, name>>.       *)
(***************************************************************************)
EXTENDS Integers, Sequences, FiniteSets, TLC

VARIABLES
    pc,          \* the code cell the operator runs next
    cwd,         \* names of the files in the working directory
    hdr,         \* WCS name in the header of each *_flc.fits file of cwd
    ext,         \* extensions of each drizzled product of cwd
    mast,        \* paths of the files under mastDownload/
    mastDir,     \* whether the directory mastDownload exists
    namespace,   \* names bound in the kernel
    input_flcs,  \* value of the kernel variable input_flcs (a list)
    calls,       \* the TweakReg / AstroDrizzle calls made so far
    attempts,    \* executions of the download cell so far
    queries,     \* calls of Observations.query_criteria so far
    lastError,   \* exception raised by the last cell run, or "none"
    log,         \* the cells that ran to their end, in the order they ran
    shifts,      \* rows and writer of each shift file of cwd
    saved,       \* settings held by each task's .cfg file of cwd
    cwd0         \* the working directory before the first cell ran

vars == <<pc, cwd, hdr, ext, mast, mastDir, namespace, input_flcs, calls,
          attempts, queries, lastError, log, shifts, saved, cwd0>>

----------------------------------------------------------------------------
(* Bounds *)

\* executions of the download cell the operator makes at most
MaxAttempts == 3

----------------------------------------------------------------------------
(* File names *)

File(pre, root, suf) == <<pre, root, suf>>

Flc(root) == File("", root, "_flc.fits")

\* obs_id of the query -> the FLC products MAST holds for it
ObsIds == {"j9irw3fwq", "j9irw4040", "j9irw5kaq"}

ProductsOf(obs) ==
    CASE obs = "j9irw3fwq" -> {Flc("j9irw3fwq")}
      [] obs = "j9irw4040" -> {Flc("j9irw4b1q"), Flc("j9irw4b3q")}
      [] obs = "j9irw5kaq" -> {Flc("j9irw5kaq")}

\* download_products(products, download_dir=''): where each product is put
MastPath(obs, name) == <<"mastDownload", "HST", obs, name>>

Products ==
    UNION {{MastPath(obs, name) : name \in ProductsOf(obs)} : obs \in ObsIds}

\* os.path.basename
basename(path) == path[Len(path)]

\* glob.glob(os.path.join('mastDownload', 'HST', '*', '*flc.fits'))
GlobMast(tree) ==
    {p \in tree : /\ Len(p) = 4
                  /\ p[1] = "mastDownload"
                  /\ p[2] = "HST"
                  /\ p[4][3] = "_flc.fits"}

\* glob.glob('*flc.fits') on the working directory
GlobFlc(dir) == {f \in dir : f[3] = "_flc.fits"}

\* WCS names: the one a file comes with from the archive, and the one
\* TweakReg inserts ("The default name of this new WCS is 'TWEAK'")
ArchiveWcs == "ARCHIVE"
TweakWcs == "TWEAK"

\* what the working directory may hold before the notebook is run
\* (an unrelated exposure, an exposure an earlier run of the notebook left
\* aligned, the configuration files of earlier runs of the two tasks)
StrayFlc == File("", "hst_old", "_flc.fits")
PreExisting ==
    {StrayFlc, Flc("j9irw3fwq"),
     File("", "tweakreg", ".cfg"), File("", "astrodrizzle", ".cfg"),
     File("", "shift_thresh", ".txt")}

\* the headers of those files: the exposure of the earlier run was aligned
InitHdr(dir) ==
    [f \in GlobFlc(dir) |-> IF f = StrayFlc THEN ArchiveWcs ELSE TweakWcs]

\* the settings the .cfg files of earlier runs hold
TweakRegSaved ==
    [threshold   |-> "100",
     peakmax     |-> "50000",
     searchrad   |-> "2.0",
     fitgeometry |-> "shift",
     interactive |-> TRUE,
     shiftfile   |-> TRUE,
     outshifts   |-> "shift_default",
     updatehdr   |-> TRUE]

DrizzleSaved ==
    [output        |-> "final",
     preserve      |-> TRUE,
     driz_sep_bits |-> "336",
     driz_cr_corr  |-> TRUE,
     final_bits    |-> "336",
     clean         |-> TRUE,
     build         |-> FALSE]

InitSaved(dir) ==
    [t \in {u \in {"tweakreg", "astrodrizzle"} : File("", u, ".cfg") \in dir} |->
        IF t = "tweakreg" THEN TweakRegSaved ELSE DrizzleSaved]

\* a row of a shift file: the file name and the fit of the image
ShiftRow(f) ==
    [file |-> f, dx |-> "fit", dy |-> "fit", rot |-> "fit", scale |-> "fit",
     xrms |-> "fit", yrms |-> "fit"]

\* the shift files among those files: written by no call of this run (0)
InitShifts(dir) ==
    [f \in {g \in dir : g[3] = ".txt"} |->
        [rows |-> << ShiftRow(StrayFlc) >>, by |-> 0]]

\* the lists a glob may return for a set of names: any order
Range(s) == {s[i] : i \in DOMAIN s}

Orderings(S) ==
    {s \in [1..Cardinality(S) -> S] : Range(s) = S}

----------------------------------------------------------------------------
(* The cells, in the order of the notebook *)

Cells == << "imports", "download", "headers", "test2a", "test2a_custom",
            "test2b", "read_thresh", "show_residuals", "show_vector",
            "test2d", "read_general", "rename_residuals", "rename_vector",
            "final", "overplot", "astrodrizzle", "inspect_sci",
            "inspect_wht" >>

CellIndex(c) == CHOOSE i \in DOMAIN Cells : Cells[i] = c

\* NextCell with the final TweakReg run skipped
NextCellSkipsFinal(c) ==
    IF CellIndex(c) = Len(Cells) THEN "done"
    ELSE IF Cells[CellIndex(c) + 1] = "final" THEN Cells[CellIndex(c) + 2]
    ELSE Cells[CellIndex(c) + 1]

\* the cell after c, "done" after the last one
NextCell(c) ==
    IF CellIndex(c) = Len(Cells) THEN "done" ELSE Cells[CellIndex(c) + 1]

Init ==
    /\ pc = "imports"
    /\ cwd \in SUBSET PreExisting
    /\ hdr = InitHdr(cwd)
    /\ ext = << >>
    /\ mast = {}
    /\ mastDir = FALSE
    /\ namespace = {}
    /\ input_flcs = << >>
    /\ calls = << >>
    /\ attempts = 0
    /\ queries = 0
    /\ lastError = "none"
    /\ log = << >>
    /\ shifts = InitShifts(cwd)
    /\ saved = InitSaved(cwd)
    /\ cwd0 = cwd

\* a cell that ran to its end: the operator goes on to the next one
Completes(c) ==
    /\ pc' = NextCell(c)
    /\ lastError' = "none"
    /\ log' = Append(log, c)

\* a cell that raised: the run stops at it
Raises(c, e) ==
    /\ pc' = c
    /\ lastError' = e
    /\ UNCHANGED log

Imports ==
    /\ pc = "imports"
    /\ Completes("imports")
    /\ namespace' = namespace \cup {"glob", "os", "shutil", "ascii", "fits",
                                    "Table", "ZScaleInterval", "Observations",
                                    "tweakreg", "astrodrizzle", "Image", "plt"}
    /\ UNCHANGED <<cwd, hdr, ext, mast, mastDir, input_flcs, calls,
                   attempts, queries, cwd0, shifts, saved>>

----------------------------------------------------------------------------
(* Cell 1: query, download and relocate *)

\* DownloadAll fetching nothing when mastDownload already holds files
DownloadAllUnlessCached(tree) == IF tree = {} THEN Products ELSE tree

\* download_products: every product not yet under mastDownload is fetched
DownloadAll(tree) == tree \cup Products

\* CopyToCwd copying from the directory of the W4 association only
CopyToCwdOneObs(dir, paths) ==
    dir \cup {basename(p) : p \in {q \in paths : q[3] = "j9irw4040"}}

\* for flc in input_flcs: shutil.copy(flc, os.path.basename(flc))
CopyToCwd(dir, paths) == dir \cup {basename(p) : p \in paths}

\* the header of every file of dir after the copies: a copied file is the
\* archive's, any other file keeps its header
HdrAfterCopy(h, dir, paths) ==
    [f \in GlobFlc(dir) |->
        IF f \in {basename(p) : p \in paths} THEN ArchiveWcs ELSE h[f]]

\* os.remove(name)
Remove(dir, name) == dir \ {name}

\* the working directory at the end of a download cell that ran to its end
CwdAfterDownload(dir, tree) ==
    Remove(CopyToCwd(dir, GlobMast(DownloadAll(tree))), Flc("j9irw4b3q"))

\* Observations.query_criteria raises: the server cannot be reached
DownloadQueryFails ==
    /\ pc = "download"
    /\ attempts < MaxAttempts
    /\ "Observations" \in namespace
    /\ Raises("download", "ConnectionError")
    /\ attempts' = attempts + 1
    /\ queries' = queries + 1
    /\ UNCHANGED <<cwd, hdr, ext, mast, mastDir, namespace, input_flcs,
                   calls, cwd0, shifts, saved>>

\* Observations.download_products raises after fetching only some products
DownloadProductsFails ==
    /\ pc = "download"
    /\ attempts < MaxAttempts
    /\ "Observations" \in namespace
    /\ \E got \in SUBSET Products :
          /\ mast \cup got # DownloadAll(mast)
          /\ mast' = mast \cup got
          /\ mastDir' = (mastDir \/ got # {})
    /\ Raises("download", "ConnectionError")
    /\ attempts' = attempts + 1
    /\ queries' = queries + 1
    /\ namespace' = namespace \cup {"obsTable", "products"}
    /\ UNCHANGED <<cwd, hdr, ext, input_flcs, calls, cwd0, shifts, saved>>

\* the network calls succeed and the rest of the cell runs: to its end, or
\* to the os.remove that finds no 'j9irw4b3q_flc.fits'
DownloadCompletes ==
    /\ pc = "download"
    /\ attempts < MaxAttempts
    /\ {"Observations", "glob", "os", "shutil"} \subseteq namespace
    /\ LET paths  == GlobMast(DownloadAll(mast))
           copied == CopyToCwd(cwd, paths)
       IN  IF Flc("j9irw4b3q") \in copied
              THEN /\ cwd' = CwdAfterDownload(cwd, mast)
                   /\ hdr' = [f \in GlobFlc(cwd') |->
                                 HdrAfterCopy(hdr, copied, paths)[f]]
                   /\ \E order \in Orderings(GlobFlc(cwd')) :
                         input_flcs' = order
                   /\ Completes("download")
                   /\ namespace' = namespace \cup
                         {"obsTable", "products", "input_flcs", "flc"}
              ELSE /\ cwd' = copied
                   /\ hdr' = HdrAfterCopy(hdr, copied, paths)
                   /\ \E order \in Orderings(paths) : input_flcs' = order
                   /\ Raises("download", "FileNotFoundError")
                   /\ namespace' = namespace \cup
                         {"obsTable", "products", "input_flcs"}
                         \cup (IF paths = {} THEN {} ELSE {"flc"})
    /\ mast' = {}
    /\ mastDir' = FALSE
    /\ attempts' = attempts + 1
    /\ queries' = queries + 1
    /\ UNCHANGED <<ext, calls, cwd0, shifts, saved>>

----------------------------------------------------------------------------
(* Cells 2-4: print PA_V3 of each file; the two commented-out calls *)

Headers ==
    /\ pc = "headers"
    /\ IF {"glob", "fits"} \subseteq namespace
          THEN /\ Completes("headers")
               /\ namespace' = (IF GlobFlc(cwd) = {} THEN namespace
                                ELSE namespace \cup {"f"})
          ELSE /\ Raises("headers", "NameError")
               /\ UNCHANGED namespace
    /\ UNCHANGED <<cwd, hdr, ext, mast, mastDir, input_flcs, calls,
                   attempts, queries, cwd0, shifts, saved>>

\* # tweakreg.TweakReg(input_flcs): every line of the cell is a comment
Test2a ==
    /\ pc = "test2a"
    /\ Completes("test2a")
    /\ UNCHANGED <<cwd, hdr, ext, mast, mastDir, namespace, input_flcs,
                   calls, attempts, queries, cwd0, shifts, saved>>

Test2aCustom ==
    /\ pc = "test2a_custom"
    /\ Completes("test2a_custom")
    /\ UNCHANGED <<cwd, hdr, ext, mast, mastDir, namespace, input_flcs,
                   calls, attempts, queries, cwd0, shifts, saved>>

----------------------------------------------------------------------------
(* TweakReg, as the notebook describes it *)

\* the defaults the notebook states (threshold, fitgeometry, interactive,
\* shiftfile, updatehdr); peakmax, searchrad and outshifts are drizzlepac's
TweakRegDefaults ==
    [threshold   |-> "4.0",
     peakmax     |-> "None",
     searchrad   |-> "1.0",
     fitgeometry |-> "rscale",
     interactive |-> FALSE,
     shiftfile   |-> FALSE,
     outshifts   |-> "shifts",
     updatehdr   |-> FALSE]

\* LoadConfig loading an existing .cfg file whatever configobj is
LoadConfigAlways(sv, task, configobj, defaults) ==
    IF task \in DOMAIN sv THEN sv[task] ELSE defaults

\* the settings a call starts from: "by default load in settings from any
\* existing .cfg files if you've run them before"; "Default parameters are
\* restored by setting configobj = None"
LoadConfig(sv, task, configobj, defaults) ==
    IF configobj = "None" THEN defaults
    ELSE IF task \in DOMAIN sv THEN sv[task]
    ELSE defaults

\* the .cfg files after a run of task: the task's file holds the settings
\* the run was made with
SaveConfig(sv, task, cfg) ==
    [t \in DOMAIN sv \cup {task} |-> IF t = task THEN cfg ELSE sv[t]]

\* those settings, overridden by the keywords of the call
Effective(defaults, kw) ==
    [k \in DOMAIN defaults |-> IF k \in DOMAIN kw THEN kw[k] ELSE defaults[k]]

\* the keywords of the three calls (configobj = None in each)
KwTest2b ==
    [threshold   |-> "4000",
     peakmax     |-> "70000",
     interactive |-> FALSE,
     shiftfile   |-> TRUE,
     outshifts   |-> "shift_thresh",
     updatehdr   |-> FALSE,
     configobj   |-> "None"]

KwTest2d ==
    [threshold   |-> "4000",
     searchrad   |-> "4.0",
     peakmax     |-> "70000",
     fitgeometry |-> "general",
     interactive |-> FALSE,
     shiftfile   |-> TRUE,
     outshifts   |-> "shift_general",
     updatehdr   |-> FALSE,
     configobj   |-> "None"]

KwFinal ==
    [threshold   |-> "4000",
     peakmax     |-> "70000",
     fitgeometry |-> "general",
     interactive |-> FALSE,
     shiftfile   |-> FALSE,
     updatehdr   |-> TRUE,
     configobj   |-> "None"]

\* Reference taking the last image of the list
ReferenceLast(flcs) == flcs[Len(flcs)]

\* the reference image: "typically selected as the first image in the
\* input list"
Reference(flcs) == flcs[1]

NonReference(flcs) == Range(flcs) \ {Reference(flcs)}

\* ShiftFileOf writing the file whatever shiftfile is
ShiftFileOfAlways(cfg) == {File("", cfg.outshifts, ".txt")}

\* the shift file of a run: written when shiftfile is set, under the name
\* outshifts gives
ShiftFileOf(cfg) ==
    IF cfg.shiftfile THEN {File("", cfg.outshifts, ".txt")} ELSE {}

\* the shift files after call number n: the file of the run holds one row
\* per input image, in the order of the list
TweakRegShifts(sh, flcs, cfg, n) ==
    [f \in DOMAIN sh \cup ShiftFileOf(cfg) |->
        IF f \in ShiftFileOf(cfg)
           THEN [rows |-> [i \in DOMAIN flcs |-> ShiftRow(flcs[i])], by |-> n]
           ELSE sh[f]]

\* the files a run writes: the shift file, the log, and for each input
\* file except the reference the two plots and the catalog of matches
TweakRegWrites(flcs, cfg) ==
    ShiftFileOf(cfg)
    \cup {File("", "tweakreg", ".log")}
    \cup (IF cfg.interactive THEN {}
          ELSE {File("residuals_", f[2], "_flc.png") : f \in NonReference(flcs)}
               \cup {File("vector_", f[2], "_flc.png") : f \in NonReference(flcs)})
    \cup {File("", f[2], "_flc_catalog_fit.match") : f \in NonReference(flcs)}

\* TweakRegHdr leaving the reference image's header alone
TweakRegHdrNotReference(h, flcs, cfg) ==
    [f \in DOMAIN h |->
        IF cfg.updatehdr /\ f \in NonReference(flcs) THEN TweakWcs ELSE h[f]]

\* TweakRegHdr writing the headers whatever updatehdr is
TweakRegHdrAlways(h, flcs, cfg) ==
    [f \in DOMAIN h |-> IF f \in Range(flcs) THEN TweakWcs ELSE h[f]]

\* the headers after a run: with updatehdr the new WCS is inserted in
\* each input image
TweakRegHdr(h, flcs, cfg) ==
    [f \in DOMAIN h |->
        IF cfg.updatehdr /\ f \in Range(flcs) THEN TweakWcs ELSE h[f]]

\* tweakreg.TweakReg(input_flcs, **kw) in cell c
TweakReg(c, kw) ==
    /\ pc = c
    /\ IF {"tweakreg", "input_flcs"} \subseteq namespace
          /\ input_flcs # << >>
          /\ Range(input_flcs) \subseteq cwd
          THEN LET cfg == Effective(LoadConfig(saved, "tweakreg", kw.configobj,
                                               TweakRegDefaults),
                                    kw)
               IN  /\ cwd' = cwd \cup TweakRegWrites(input_flcs, cfg)
                              \cup {File("", "tweakreg", ".cfg")}
                   /\ saved' = SaveConfig(saved, "tweakreg", cfg)
                   /\ hdr' = TweakRegHdr(hdr, input_flcs, cfg)
                   /\ shifts' = TweakRegShifts(shifts, input_flcs, cfg,
                                               Len(calls) + 1)
                   /\ calls' = Append(calls, [routine |-> "TweakReg",
                                              cell    |-> c,
                                              files   |-> input_flcs,
                                              wcs     |-> [f \in Range(input_flcs) |-> hdr[f]],
                                              cfg     |-> cfg])
                   /\ Completes(c)
          ELSE /\ Raises(c, IF "input_flcs" \in namespace
                              THEN "ValueError" ELSE "NameError")
               /\ UNCHANGED <<cwd, hdr, calls, shifts, saved>>
    /\ UNCHANGED <<ext, mast, mastDir, namespace, input_flcs, attempts,
                   queries, cwd0>>

Test2b == TweakReg("test2b", KwTest2b)

Test2d == TweakReg("test2d", KwTest2d)

Final == TweakReg("final", KwFinal)

----------------------------------------------------------------------------
(* The cells that read what a run wrote *)

\* a cell that opens the files `needs` and binds `binds`
ReadCell(c, uses, needs, binds) ==
    /\ pc = c
    /\ IF ~(uses \subseteq namespace)
          THEN /\ Raises(c, "NameError")
               /\ UNCHANGED namespace
          ELSE IF ~(needs \subseteq cwd)
          THEN /\ Raises(c, "FileNotFoundError")
               /\ UNCHANGED namespace
          ELSE /\ Completes(c)
               /\ namespace' = namespace \cup binds
    /\ UNCHANGED <<cwd, hdr, ext, mast, mastDir, input_flcs, calls,
                   attempts, queries, cwd0, shifts, saved>>

\* Table.read('shift_thresh.txt', ...)
ReadThresh ==
    ReadCell("read_thresh", {"Table"}, {File("", "shift_thresh", ".txt")},
             {"shift_tab", "formats", "i", "col"})

\* Image(filename='residuals_j9irw5kaq_flc.png', ...)
ShowResiduals ==
    ReadCell("show_residuals", {"Image"},
             {File("residuals_", "j9irw5kaq", "_flc.png")}, {})

\* Image(filename='vector_j9irw4b1q_flc.png', ...)
ShowVector ==
    ReadCell("show_vector", {"Image"},
             {File("vector_", "j9irw4b1q", "_flc.png")}, {})

\* Table.read('shift_general.txt', ...)
ReadGeneral ==
    ReadCell("read_general", {"Table"}, {File("", "shift_general", ".txt")},
             {"shift_tab", "formats", "i", "col"})

\* os.rename(src, dst); Image(filename=dst)
RenameCell(c, src, dst) ==
    /\ pc = c
    /\ IF ~({"os", "Image"} \subseteq namespace)
          THEN /\ Raises(c, "NameError")
               /\ UNCHANGED cwd
          ELSE IF src \notin cwd
          THEN /\ Raises(c, "FileNotFoundError")
               /\ UNCHANGED cwd
          ELSE /\ Completes(c)
               /\ cwd' = (cwd \ {src}) \cup {dst}
    /\ UNCHANGED <<hdr, ext, mast, mastDir, namespace, input_flcs, calls,
                   attempts, queries, cwd0, shifts, saved>>

RenameResiduals ==
    RenameCell("rename_residuals",
               File("residuals_", "j9irw4b1q", "_flc.png"),
               File("residuals_", "j9irw4b1q", "_flc_general.png"))

RenameVector ==
    RenameCell("rename_vector",
               File("vector_", "j9irw4b1q", "_flc.png"),
               File("vector_", "j9irw4b1q", "_flc_general.png"))

\* fits.open('j9irw4b1q_flc.fits')['SCI', 1];
\* ascii.read('j9irw4b1q_flc_catalog_fit.match')
Overplot ==
    ReadCell("overplot", {"plt", "fits", "ZScaleInterval", "ascii"},
             {Flc("j9irw4b1q"), File("", "j9irw4b1q", "_flc_catalog_fit.match")},
             {"chip1_data", "zscale", "z1", "z2", "match_tab",
              "match_tab_chip2", "x_cord", "y_cord"})

----------------------------------------------------------------------------
(* AstroDrizzle, as the notebook describes it *)

KwDrizzle ==
    [output        |-> "f606w_combined",
     preserve      |-> FALSE,
     driz_sep_bits |-> "64,16",
     driz_cr_corr  |-> TRUE,
     final_bits    |-> "64,16",
     clean         |-> FALSE,
     build         |-> TRUE,
     configobj     |-> "None"]

\* the defaults of the keywords the call writes, as the notebook gives
\* them ("Defaults to input file name" is "" here)
DrizzleDefaults ==
    [output        |-> "",
     preserve      |-> TRUE,
     driz_sep_bits |-> "0",
     driz_cr_corr  |-> FALSE,
     final_bits    |-> "0",
     clean         |-> FALSE,
     build         |-> FALSE]

\* DrizzleProducts writing three files whatever build is
DrizzleProductsSplit(cfg) ==
    [f \in {File("", cfg.output, "_drc_sci.fits"),
             File("", cfg.output, "_drc_wht.fits"),
             File("", cfg.output, "_drc_ctx.fits")} |-> {<<"PRIMARY", 0>>}]

\* the drizzled products and their extensions: one multi-extension file
\* with build, three files without
DrizzleProducts(cfg) ==
    IF cfg.build
       THEN [f \in {File("", cfg.output, "_drc.fits")} |->
                {<<"SCI", 1>>, <<"WHT", 1>>, <<"CTX", 1>>}]
       ELSE [f \in {File("", cfg.output, "_drc_sci.fits"),
                    File("", cfg.output, "_drc_wht.fits"),
                    File("", cfg.output, "_drc_ctx.fits")} |-> {<<"PRIMARY", 0>>}]

\* the other files of a run: the log, the median image, the cosmic-ray
\* cleaned copies, and (kept unless clean) the cosmic-ray masks
DrizzleWrites(flcs, cfg) ==
    {File("", "astrodrizzle", ".log"), File("", cfg.output, "_med.fits")}
    \cup (IF cfg.driz_cr_corr
             THEN {File("", f[2], "_crclean.fits") : f \in Range(flcs)}
             ELSE {})
    \cup (IF cfg.driz_cr_corr /\ ~cfg.clean
             THEN {File("", f[2], "_crmask.fits") : f \in Range(flcs)}
             ELSE {})

\* DrizzleInput leaving the reference image out
DrizzleInputNoReference(flcs) == SubSeq(flcs, 2, Len(flcs))

\* the list the call is given
DrizzleInput(flcs) == flcs

\* astrodrizzle.AstroDrizzle(input_flcs, output='f606w_combined', ...)
AstroDrizzle ==
    /\ pc = "astrodrizzle"
    /\ IF {"astrodrizzle", "input_flcs"} \subseteq namespace
          /\ input_flcs # << >>
          /\ Range(input_flcs) \subseteq cwd
          THEN LET cfg  == Effective(LoadConfig(saved, "astrodrizzle",
                                                KwDrizzle.configobj,
                                                DrizzleDefaults),
                                     KwDrizzle)
                   flcs == DrizzleInput(input_flcs)
                   made == DrizzleProducts(cfg)
               IN  /\ cwd' = cwd \cup DOMAIN made \cup DrizzleWrites(flcs, cfg)
                              \cup {File("", "astrodrizzle", ".cfg")}
                   /\ saved' = SaveConfig(saved, "astrodrizzle", cfg)
                   /\ ext' = [f \in DOMAIN ext \cup DOMAIN made |->
                                 IF f \in DOMAIN made THEN made[f] ELSE ext[f]]
                   /\ calls' = Append(calls, [routine |-> "AstroDrizzle",
                                              cell    |-> "astrodrizzle",
                                              files   |-> flcs,
                                              wcs     |-> [f \in Range(flcs) |-> hdr[f]],
                                              cfg     |-> cfg])
                   /\ Completes("astrodrizzle")
          ELSE /\ Raises("astrodrizzle", IF "input_flcs" \in namespace
                                           THEN "ValueError" ELSE "NameError")
               /\ UNCHANGED <<cwd, ext, calls, saved>>
    /\ UNCHANGED <<hdr, mast, mastDir, namespace, input_flcs, attempts,
                   queries, cwd0, shifts>>

\* fits.open('f606w_combined_drc.fits')[extname, 1].data
InspectCell(c, extname) ==
    /\ pc = c
    /\ LET drc == File("", "f606w_combined", "_drc.fits")
       IN  IF ~({"plt", "fits", "zscale"} \subseteq namespace)
              THEN /\ Raises(c, "NameError")
                   /\ UNCHANGED namespace
              ELSE IF drc \notin cwd
              THEN /\ Raises(c, "FileNotFoundError")
                   /\ UNCHANGED namespace
              ELSE IF <<extname, 1>> \notin ext[drc]
              THEN /\ Raises(c, "KeyError")
                   /\ UNCHANGED namespace
              ELSE /\ Completes(c)
                   /\ namespace' = namespace \cup {"drc_dat", "z1", "z2"}
    /\ UNCHANGED <<cwd, hdr, ext, mast, mastDir, input_flcs, calls,
                   attempts, queries, cwd0, shifts, saved>>

InspectSci == InspectCell("inspect_sci", "SCI")

InspectWht == InspectCell("inspect_wht", "WHT")

----------------------------------------------------------------------------

Next ==
    \/ Imports
    \/ DownloadQueryFails
    \/ DownloadProductsFails
    \/ DownloadCompletes
    \/ Headers
    \/ Test2a
    \/ Test2aCustom
    \/ Test2b
    \/ ReadThresh
    \/ ShowResiduals
    \/ ShowVector
    \/ Test2d
    \/ ReadGeneral
    \/ RenameResiduals
    \/ RenameVector
    \/ Final
    \/ Overplot
    \/ AstroDrizzle
    \/ InspectSci
    \/ InspectWht


Spec == Init /\ [][Next]_vars
----------------------------------------------------------------------------
(* Properties *)

IndexIn(seq, c) == CHOOSE i \in DOMAIN seq : seq[i] = c

\* b ran only after a had run
RanBefore(a, b) ==
    b \in Range(log) =>
        /\ a \in Range(log)
        /\ IndexIn(log, a) < IndexIn(log, b)

\* C1: the steps occur in the fixed order download, exploratory run and
\* the inspection of its outputs (twice), final run, AstroDrizzle,
\* inspection of the combined output: the cells that ran are an initial
\* part of the notebook's list, the cell to run next is the one after
\* them, and AstroDrizzle is called only after the TweakReg calls.
C1_StepsInOrder ==
    /\ Len(log) <= Len(Cells)
    /\ log = SubSeq(Cells, 1, Len(log))
    /\ pc = (IF Len(log) = Len(Cells) THEN "done" ELSE Cells[Len(log) + 1])
    /\ RanBefore("download", "test2b")
    /\ RanBefore("test2b", "read_thresh")
    /\ RanBefore("read_thresh", "show_residuals")
    /\ RanBefore("show_vector", "test2d")
    /\ RanBefore("test2d", "read_general")
    /\ RanBefore("rename_vector", "final")
    /\ RanBefore("final", "astrodrizzle")
    /\ RanBefore("astrodrizzle", "inspect_sci")
    /\ RanBefore("inspect_sci", "inspect_wht")
    /\ [i \in DOMAIN calls |-> calls[i].cell]
          = SelectSeq(log, LAMBDA c : c \in {"test2b", "test2d", "final",
                                             "astrodrizzle"})
    /\ \A i \in DOMAIN calls :
          calls[i].routine = "AstroDrizzle" =>
              \E j \in 1..(i - 1) : calls[j].routine = "TweakReg"

\* the whole notebook ran
C1_Witness ==
    /\ pc = "done"
    /\ log = Cells
    /\ Len(calls) = 4

\* C2: when AstroDrizzle is invoked, every file of its input list has the
\* WCS a TweakReg run with updatehdr=True inserted, in an earlier call
\* that was given the file, and the call passes no shift file.
C2_AlignedWhenDrizzled ==
    \A i \in DOMAIN calls :
        calls[i].routine = "AstroDrizzle" =>
            /\ "shiftfile" \notin DOMAIN calls[i].cfg
            /\ \A f \in Range(calls[i].files) :
                  /\ calls[i].wcs[f] = TweakWcs
                  /\ \E j \in 1..(i - 1) :
                        /\ calls[j].routine = "TweakReg"
                        /\ calls[j].cfg.updatehdr
                        /\ f \in Range(calls[j].files)

\* AstroDrizzle was called, on files that came from the archive unaligned
C2_Witness ==
    /\ \E i \in DOMAIN calls :
          /\ calls[i].routine = "AstroDrizzle"
          /\ Len(calls[i].files) >= 3
    /\ \E j \in DOMAIN calls :
          /\ calls[j].cell = "test2b"
          /\ \A f \in Range(calls[j].files) : calls[j].wcs[f] = ArchiveWcs

\* the call a step made, if it made one
CallMade == calls'[Len(calls')]

\* C3: a TweakReg run with updatehdr=False (tests 2b and 2d) changes the
\* header of no file, and a step that changes the WCS of an input file is
\* the final TweakReg run, made with updatehdr=True.
C3_OnlyFinalWritesHeaders ==
    [][ /\ (pc \in {"test2b", "test2d"} => hdr' = hdr)
        /\ (/\ Len(calls') = Len(calls) + 1
            /\ CallMade.routine = "TweakReg"
            /\ ~CallMade.cfg.updatehdr) => hdr' = hdr
        /\ (\E f \in Range(input_flcs) :
               /\ f \in DOMAIN hdr
               /\ f \in DOMAIN hdr'
               /\ hdr'[f] # hdr[f])
           => /\ pc = "final"
              /\ Len(calls') = Len(calls) + 1
              /\ CallMade.routine = "TweakReg"
              /\ CallMade.cfg.updatehdr
      ]_vars

\* both exploratory runs were made and the input files still have the WCS
\* they came with
C3_Witness ==
    /\ pc = "read_general"
    /\ Len(calls) = 2
    /\ ~calls[1].cfg.updatehdr
    /\ ~calls[2].cfg.updatehdr
    /\ Len(input_flcs) >= 3
    /\ \A f \in Range(input_flcs) : hdr[f] = ArchiveWcs

\* the names the import cell and a download cell that ran to its end bind
NamesAfterDownload ==
    {"glob", "os", "shutil", "ascii", "fits", "Table", "ZScaleInterval",
     "Observations", "tweakreg", "astrodrizzle", "Image", "plt",
     "obsTable", "products", "input_flcs", "flc"}

\* C5: a download cell that fails on the connection is not retried by the
\* notebook (one query per execution of the cell), no later cell has run
\* and nothing of the working directory has changed when it fails, and
\* once a re-run succeeds the working directory, the headers, the
\* mastDownload tree, the namespace and the members of input_flcs are
\* those a success at the first attempt gives from the initial directory.
C5_FailAndRerun ==
    /\ queries = attempts
    /\ lastError = "ConnectionError" =>
          /\ pc = "download"
          /\ log = << "imports" >>
          /\ calls = << >>
          /\ "input_flcs" \notin namespace
          /\ cwd = cwd0
          /\ hdr = InitHdr(cwd0)
    /\ pc = "headers" =>
          /\ cwd = CwdAfterDownload(cwd0, {})
          /\ hdr = [f \in GlobFlc(cwd) |->
                       IF f \in {basename(p) : p \in Products}
                          THEN ArchiveWcs ELSE InitHdr(cwd0)[f]]
          /\ mast = {}
          /\ ~mastDir
          /\ Range(input_flcs) = GlobFlc(cwd)
          /\ Len(input_flcs) = Cardinality(GlobFlc(cwd))
          /\ namespace = NamesAfterDownload
          /\ log = << "imports", "download" >>
          /\ calls = << >>
          /\ lastError = "none"

\* the cell succeeded at the operator's third execution of it
C5_Witness ==
    /\ pc = "headers"
    /\ attempts = 3
    /\ Flc("j9irw3fwq") \in cwd0

\* C6 as stated: after the download cell every product that was under
\* mastDownload is in the working directory and mastDownload is gone.
C6_AllProductsRelocated ==
    "download" \in Range(log) =>
        /\ \A p \in Products : basename(p) \in cwd
        /\ ~mastDir
        /\ mast = {}

\* C6, amended: after the download cell every product that was under
\* mastDownload except j9irw4b3q_flc.fits is in the working directory
\* under its base name, j9irw4b3q_flc.fits is not there (the cell removes
\* it after the copy), and mastDownload no longer exists.
C6_RelocatedExceptRemoved ==
    "download" \in Range(log) =>
        /\ \A p \in Products :
              basename(p) # Flc("j9irw4b3q") => basename(p) \in cwd
        /\ Flc("j9irw4b3q") \notin cwd
        /\ ~mastDir
        /\ mast = {}

\* the download cell has just run to its end, after a partial download
C6_Witness ==
    /\ pc = "headers"
    /\ attempts >= 2
    /\ {Flc("j9irw3fwq"), Flc("j9irw4b1q"), Flc("j9irw5kaq")} \subseteq cwd

\* C7: after the download cell input_flcs consists of exactly the three
\* exposures, whatever the working directory contained before.
C7_ExactlyThreeInputs ==
    "download" \in Range(log) =>
        /\ Len(input_flcs) = 3
        /\ Range(input_flcs)
              = {Flc("j9irw3fwq"), Flc("j9irw4b1q"), Flc("j9irw5kaq")}

\* C8: every TweakReg run and the AstroDrizzle call are given the list
\* input_flcs has, and no cell after the download cell changes input_flcs.
C8_SameListEverywhere ==
    /\ [](\A i \in DOMAIN calls : calls[i].files = input_flcs)
    /\ [][pc \notin {"imports", "download"} => input_flcs' = input_flcs]_vars

\* the three TweakReg runs and the AstroDrizzle call were made
C8_Witness ==
    /\ Len(calls) = 4
    /\ calls[4].routine = "AstroDrizzle"
    /\ Len(calls[4].files) >= 3

\* the source-finding and fit options C9 names
FitOptions == {"threshold", "peakmax", "searchrad", "fitgeometry"}

\* C9: the final TweakReg run uses, for threshold, peakmax, searchrad and
\* fitgeometry, the values of the last exploratory run (test 2d).
C9_FinalUsesTest2dOptions ==
    \A i, j \in DOMAIN calls :
        (calls[i].cell = "final" /\ calls[j].cell = "test2d") =>
            \A k \in FitOptions : calls[i].cfg[k] = calls[j].cfg[k]

DrcFile == File("", "f606w_combined", "_drc.fits")

SplitSuffixes == {"_drc_sci.fits", "_drc_wht.fits", "_drc_ctx.fits"}

\* C10: after AstroDrizzle (build=True, output='f606w_combined') the
\* working directory has f606w_combined_drc.fits with the extensions
\* SCI,1 WHT,1 and CTX,1 and no separate science, weight or context file;
\* the two cells that open SCI,1 and WHT,1 do not raise; with build=False
\* the call would write the three separate files and no _drc.fits.
C10_BuildOutputs ==
    /\ "astrodrizzle" \in Range(log) =>
          /\ DrcFile \in cwd
          /\ DrcFile \in DOMAIN ext
          /\ {<<"SCI", 1>>, <<"WHT", 1>>, <<"CTX", 1>>} \subseteq ext[DrcFile]
          /\ \A f \in cwd : f[3] \notin SplitSuffixes
    /\ pc \in {"inspect_sci", "inspect_wht"} => lastError = "none"
    /\ LET cfg   == Effective(DrizzleDefaults, KwDrizzle)
           split == DrizzleProducts([cfg EXCEPT !.build = FALSE])
       IN  /\ cfg.build
           /\ cfg.output = "f606w_combined"
           /\ DOMAIN split = {File("", "f606w_combined", suf) : suf \in SplitSuffixes}

\* both inspection cells ran on the combined file
C10_Witness ==
    /\ pc = "done"
    /\ DrcFile \in cwd
    /\ {"inspect_sci", "inspect_wht"} \subseteq Range(log)

ShiftColumns == {"file", "dx", "dy", "rot", "scale", "xrms", "yrms"}

\* the shift file a read cell opens was written by the last call made, and
\* that call is the cell that ran just before the read
ReadsFreshShiftFile(c, f) ==
    (pc = c /\ pc' # c) =>
        /\ f \in DOMAIN shifts
        /\ Len(calls) >= 1
        /\ shifts[f].by = Len(calls)
        /\ calls[Len(calls)].cell = log[Len(log)]

\* C11: a TweakReg run writes a shift file exactly when shiftfile=True,
\* under the name outshifts gives, with one row per input image (file name,
\* dx, dy, rotation, scale, xrms, yrms); the final run (shiftfile=False)
\* writes none; shift_thresh.txt and shift_general.txt are each read right
\* after the run that wrote them.
C11_ShiftFiles ==
    /\ [](\A f \in DOMAIN shifts :
             /\ f \in cwd
             /\ shifts[f].by # 0 =>
                   /\ calls[shifts[f].by].routine = "TweakReg"
                   /\ calls[shifts[f].by].cfg.shiftfile
                   /\ calls[shifts[f].by].cell # "final"
                   /\ f = File("", calls[shifts[f].by].cfg.outshifts, ".txt"))
    /\ [][ /\ (/\ Len(calls') = Len(calls) + 1
               /\ CallMade.routine = "TweakReg")
              => LET cfg == CallMade.cfg
                     out == File("", cfg.outshifts, ".txt")
                 IN  /\ cfg.shiftfile =>
                           /\ out \in cwd'
                           /\ shifts'[out].by = Len(calls')
                           /\ Len(shifts'[out].rows) = Len(CallMade.files)
                           /\ \A i \in DOMAIN CallMade.files :
                                 /\ shifts'[out].rows[i].file = CallMade.files[i]
                                 /\ DOMAIN shifts'[out].rows[i] = ShiftColumns
                           /\ \A f \in DOMAIN shifts \ {out} :
                                 shifts'[f] = shifts[f]
                     /\ ~cfg.shiftfile =>
                           /\ shifts' = shifts
                           /\ {g \in cwd' \ cwd : g[3] = ".txt"} = {}
           /\ (pc = "final" /\ pc' # pc) => shifts' = shifts
           /\ ReadsFreshShiftFile("read_thresh", File("", "shift_thresh", ".txt"))
           /\ ReadsFreshShiftFile("read_general", File("", "shift_general", ".txt"))
         ]_vars

\* the three runs were made in a directory that held an old
\* shift_thresh.txt: the two shift files are those of tests 2b and 2d
C11_Witness ==
    /\ pc = "overplot"
    /\ File("", "shift_thresh", ".txt") \in cwd0
    /\ DOMAIN shifts = {File("", "shift_thresh", ".txt"),
                        File("", "shift_general", ".txt")}
    /\ shifts[File("", "shift_thresh", ".txt")].by = 1
    /\ shifts[File("", "shift_general", ".txt")].by = 2
    /\ Len(shifts[File("", "shift_general", ".txt")].rows) >= 3

\* the two diagnostic plots of an input file
PlotsOf(f) ==
    {File("residuals_", f[2], "_flc.png"), File("vector_", f[2], "_flc.png")}

\* C12: a TweakReg run with interactive=False leaves, for each input file
\* except the first of the list (the reference), its residuals and vector
\* plots in the working directory, and creates neither for the reference.
C12_PlotsExceptReference ==
    [][ (/\ Len(calls') = Len(calls) + 1
         /\ CallMade.routine = "TweakReg"
         /\ ~CallMade.cfg.interactive)
        => /\ \A i \in 2..Len(CallMade.files) :
                 CallMade.files[i] # CallMade.files[1]
                    => PlotsOf(CallMade.files[i]) \subseteq cwd'
           /\ PlotsOf(CallMade.files[1]) \cap (cwd' \ cwd) = {}
      ]_vars

\* test 2b ran on a list whose first file is j9irw5kaq_flc.fits: the other
\* two exposures have their plots and j9irw5kaq has none
C12_Witness ==
    /\ pc = "read_thresh"
    /\ Len(calls) = 1
    /\ input_flcs[1] = Flc("j9irw5kaq")
    /\ PlotsOf(Flc("j9irw3fwq")) \cup PlotsOf(Flc("j9irw4b1q")) \subseteq cwd
    /\ PlotsOf(Flc("j9irw5kaq")) \cap cwd = {}

\* the keywords each calling cell writes, and the task's defaults
KwOf(c) ==
    CASE c = "test2b" -> KwTest2b
      [] c = "test2d" -> KwTest2d
      [] c = "final" -> KwFinal
      [] c = "astrodrizzle" -> KwDrizzle

DefaultsOf(routine) ==
    IF routine = "TweakReg" THEN TweakRegDefaults ELSE DrizzleDefaults

\* C13: every call passes configobj=None and its configuration is the
\* library defaults overridden by the keywords written in the call, the
\* same whatever .cfg files are in the working directory and whatever
\* runs were made before: the configuration is a function of the cell
\* alone, so two executions give each call the same configuration.
C13_ConfigFromCallOnly ==
    \A i \in DOMAIN calls :
        /\ KwOf(calls[i].cell).configobj = "None"
        /\ \A k \in DOMAIN DefaultsOf(calls[i].routine) :
              calls[i].cfg[k] =
                 (IF k \in DOMAIN KwOf(calls[i].cell)
                     THEN KwOf(calls[i].cell)[k]
                     ELSE DefaultsOf(calls[i].routine)[k])
        /\ DOMAIN calls[i].cfg = DOMAIN DefaultsOf(calls[i].routine)

\* all four calls were made in a directory that held the .cfg files of
\* earlier runs, each call after the first also after a run that saved
\* its own settings
C13_Witness ==
    /\ Len(calls) = 4
    /\ {File("", "tweakreg", ".cfg"), File("", "astrodrizzle", ".cfg")}
          \subseteq cwd0
    /\ saved["tweakreg"] = calls[3].cfg
    /\ saved["tweakreg"] # TweakRegSaved
====

